---- MODULE Spec2Model ----
(***************************************************************************)
(* The request server of the CredPal node application (src/app.js, kept as *)
(* src/unnamed/part_007, and src/metrics.js): the middleware chain, the    *)
(* four routes, the 404 and error handlers, the store pool, the cache      *)
(* client, the process-wide metrics and the SIGTERM shutdown; and the two  *)
(* deployment scripts, blue-green-deploy.sh and rolling-deploy.sh.         *)
(*                                                                         *)
(* Node runs every callback to completion, so one action is one callback:  *)
(* the synchronous part of a handler up to its first await, the            *)
(* continuation after each await, and the 'finish' event of a response.    *)
(***************************************************************************)
EXTENDS Integers, Sequences, FiniteSets, TLC

(***************************************************************************)
(* Bounds of the model.                                                    *)
(***************************************************************************)
\* requests accepted over a run
MaxRequests == 3
\* requests in flight at once
MaxInFlight == 2
\* size of the store pool (the code sets max: 20; the model scales it down)
PoolMax == 1
\* largest response time, in clock ticks, a response may record
MaxDuration == 1
\* termination signals delivered over a run
MaxSignals == 2
\* largest desired capacity of the auto scaling group
MaxCapacity == 4
\* responses recorded by the aggregator before a snapshot is observed
MaxCount == 3

(***************************************************************************)
(* JavaScript values as they come out of express.json(): a tagged record   *)
(* per JSON type.  Strings are sequences of characters, arrays sequences   *)
(* of values, objects sequences of <<key, value>> in insertion order.      *)
(***************************************************************************)
Undefined == [t |-> "undefined"]
JNull == [t |-> "null"]
JBool(b) == [t |-> "bool", b |-> b]
JNum(n) == [t |-> "num", n |-> n]
JStr(s) == [t |-> "str", s |-> s]
JArr(a) == [t |-> "arr", a |-> a]
JObj(o) == [t |-> "obj", o |-> o]

\* the character U+0000
NUL == "NUL"
\* the characters of the model, in code point order
Alphabet == <<NUL, "\"", "\\", "a", "b">>
Digits == <<"0", "1", "2", "3", "4", "5", "6", "7", "8", "9">>

CodePoint(c) == CHOOSE i \in 1..Len(Alphabet) : Alphabet[i] = c

\* JavaScript's ToBoolean, as used by `!data`
Truthy(v) ==
  CASE v.t = "undefined" -> FALSE
    [] v.t = "null" -> FALSE
    [] v.t = "bool" -> v.b
    [] v.t = "num" -> v.n # 0
    [] v.t = "str" -> v.s # <<>>
    [] OTHER -> TRUE

(***************************************************************************)
(* JSON.stringify(data): the text handed to the store as parameter $1.     *)
(* The text is a sequence of tokens: one per punctuation mark, literal,    *)
(* digit and string character.                                             *)
(***************************************************************************)
Escape(c) ==
  IF c = "\"" THEN <<"\\", "\"">>
  ELSE IF c = "\\" THEN <<"\\", "\\">>
  ELSE IF c = NUL THEN <<"\\u0000">>
  ELSE <<c>>

RECURSIVE EscapeAll(_)
EscapeAll(s) == IF s = <<>> THEN <<>> ELSE Escape(Head(s)) \o EscapeAll(Tail(s))

Quote(s) == <<"\"">> \o EscapeAll(s) \o <<"\"">>

RECURSIVE Stringify(_)
RECURSIVE StringifyElems(_, _)
RECURSIVE StringifyMembers(_, _)

StringifyElems(a, i) ==
  IF i > Len(a) THEN <<>>
  ELSE (IF i > 1 THEN <<",">> ELSE <<>>) \o Stringify(a[i]) \o StringifyElems(a, i + 1)

StringifyMembers(o, i) ==
  IF i > Len(o) THEN <<>>
  ELSE (IF i > 1 THEN <<",">> ELSE <<>>)
       \o Quote(o[i][1]) \o <<":">> \o Stringify(o[i][2])
       \o StringifyMembers(o, i + 1)

Stringify(v) ==
  CASE v.t = "null" -> <<"null">>
    [] v.t = "bool" -> IF v.b THEN <<"true">> ELSE <<"false">>
    [] v.t = "num" -> <<Digits[v.n + 1]>>
    [] v.t = "str" -> Quote(v.s)
    [] v.t = "arr" -> <<"[">> \o StringifyElems(v.a, 1) \o <<"]">>
    [] v.t = "obj" -> <<"{">> \o StringifyMembers(v.o, 1) \o <<"}">>
    [] OTHER -> <<>>

(***************************************************************************)
(* The store's side: process_logs.data is JSONB NOT NULL.  jsonb input     *)
(* parses the text, rejects what is no JSON and the escape \u0000, and     *)
(* keeps objects with their keys sorted (shorter first, then by code       *)
(* point) and without duplicates (the last one wins).                      *)
(***************************************************************************)
ParseFail == [ok |-> FALSE, val |-> JNull, next |-> 0]
ParseOk(v, i) == [ok |-> TRUE, val |-> v, next |-> i]

RECURSIVE ParseChars(_, _, _)
ParseChars(txt, i, acc) ==
  IF i > Len(txt) THEN ParseFail
  ELSE IF txt[i] = "\"" THEN ParseOk(acc, i + 1)
  ELSE IF txt[i] = "\\"
    THEN IF i + 1 > Len(txt) \/ txt[i + 1] \notin {"\"", "\\"} THEN ParseFail
         ELSE ParseChars(txt, i + 2, Append(acc, txt[i + 1]))
  ELSE IF txt[i] = "\\u0000" THEN ParseFail
  ELSE ParseChars(txt, i + 1, Append(acc, txt[i]))

RECURSIVE ParseValue(_, _)
RECURSIVE ParseElems(_, _, _)
RECURSIVE ParseMembers(_, _, _)

ParseElems(txt, i, acc) ==
  LET r == ParseValue(txt, i) IN
  IF ~r.ok \/ r.next > Len(txt) THEN ParseFail
  ELSE IF txt[r.next] = "]" THEN ParseOk(JArr(Append(acc, r.val)), r.next + 1)
  ELSE IF txt[r.next] = "," THEN ParseElems(txt, r.next + 1, Append(acc, r.val))
  ELSE ParseFail

ParseMembers(txt, i, acc) ==
  IF i > Len(txt) \/ txt[i] # "\"" THEN ParseFail
  ELSE LET k == ParseChars(txt, i + 1, <<>>) IN
    IF ~k.ok \/ k.next > Len(txt) \/ txt[k.next] # ":" THEN ParseFail
    ELSE LET r == ParseValue(txt, k.next + 1) IN
      IF ~r.ok \/ r.next > Len(txt) THEN ParseFail
      ELSE IF txt[r.next] = "}"
        THEN ParseOk(JObj(Append(acc, <<k.val, r.val>>)), r.next + 1)
      ELSE IF txt[r.next] = ","
        THEN ParseMembers(txt, r.next + 1, Append(acc, <<k.val, r.val>>))
      ELSE ParseFail

ParseValue(txt, i) ==
  IF i > Len(txt) THEN ParseFail
  ELSE LET c == txt[i] IN
    CASE c = "null" -> ParseOk(JNull, i + 1)
      [] c = "true" -> ParseOk(JBool(TRUE), i + 1)
      [] c = "false" -> ParseOk(JBool(FALSE), i + 1)
      [] \E d \in 1..Len(Digits) : Digits[d] = c ->
           ParseOk(JNum((CHOOSE d \in 1..Len(Digits) : Digits[d] = c) - 1), i + 1)
      [] c = "\"" ->
           LET r == ParseChars(txt, i + 1, <<>>) IN
           IF r.ok THEN ParseOk(JStr(r.val), r.next) ELSE ParseFail
      [] c = "[" ->
           IF i + 1 <= Len(txt) /\ txt[i + 1] = "]" THEN ParseOk(JArr(<<>>), i + 2)
           ELSE ParseElems(txt, i + 1, <<>>)
      [] c = "{" ->
           IF i + 1 <= Len(txt) /\ txt[i + 1] = "}" THEN ParseOk(JObj(<<>>), i + 2)
           ELSE ParseMembers(txt, i + 1, <<>>)
      [] OTHER -> ParseFail

\* the order jsonb keeps object keys in
RECURSIVE KeyLess(_, _)
KeyLess(k1, k2) ==
  IF Len(k1) # Len(k2) THEN Len(k1) < Len(k2)
  ELSE IF k1 = <<>> THEN FALSE
  ELSE IF Head(k1) # Head(k2) THEN CodePoint(Head(k1)) < CodePoint(Head(k2))
  ELSE KeyLess(Tail(k1), Tail(k2))

\* the members of o with key k removed
RECURSIVE DropKey(_, _)
DropKey(o, k) ==
  IF o = <<>> THEN <<>>
  ELSE IF Head(o)[1] = k THEN DropKey(Tail(o), k)
  ELSE <<Head(o)>> \o DropKey(Tail(o), k)

\* member m put at its place in the sorted members o
RECURSIVE InsertMember(_, _)
InsertMember(o, m) ==
  IF o = <<>> THEN <<m>>
  ELSE IF KeyLess(m[1], Head(o)[1]) THEN <<m>> \o o
  ELSE <<Head(o)>> \o InsertMember(Tail(o), m)

RECURSIVE Normalize(_)
RECURSIVE NormalizeElems(_)
RECURSIVE NormalizeMembers(_, _)

NormalizeElems(a) ==
  IF a = <<>> THEN <<>> ELSE <<Normalize(Head(a))>> \o NormalizeElems(Tail(a))

NormalizeMembers(o, acc) ==
  IF o = <<>> THEN acc
  ELSE NormalizeMembers(Tail(o),
         InsertMember(DropKey(acc, Head(o)[1]), <<Head(o)[1], Normalize(Head(o)[2])>>))

Normalize(v) ==
  CASE v.t = "arr" -> JArr(NormalizeElems(v.a))
    [] v.t = "obj" -> JObj(NormalizeMembers(v.o, <<>>))
    [] OTHER -> v

\* jsonb_in: [ok, val]
JsonbIn(txt) ==
  LET r == ParseValue(txt, 1) IN
  IF r.ok /\ r.next = Len(txt) + 1 THEN [ok |-> TRUE, val |-> Normalize(r.val)]
  ELSE [ok |-> FALSE, val |-> JNull]

(***************************************************************************)
(* The inputs: what a client may send.                                     *)
(***************************************************************************)
Methods == {"GET", "POST"}
Paths == {"/health", "/status", "/metrics", "/process", "/nope"}
\* a request has no body, a body express.json() rejects, or a JSON object
Bodies == {"none", "malformed", "json"}
\* the values of the data field of a JSON body (Undefined: no such field):
\* a falsy one, one the store takes and one it rejects
DataValues ==
  { Undefined, JNum(0),
    JObj(<< << <<"a">>, JNum(1) >> >>),
    JStr(<<NUL>>) }
\* the values the ingest handler is exercised on: every JSON type, the falsy
\* scalars, strings that need escaping, nesting, keys out of order
IngestValues ==
  { Undefined, JNull, JBool(FALSE), JNum(0), JStr(<<>>),
    JBool(TRUE), JNum(1), JStr(<<"a", "\"">>), JStr(<<"\\">>), JStr(<<NUL>>),
    JArr(<<>>), JArr(<<JNum(0), JStr(<<"b">>)>>),
    JObj(<< << <<"b">>, JNum(1) >>, << <<"a">>, JArr(<<JNull>>) >> >>) }
\* process.env.NODE_ENV
Environments == {"development", "production", "unset"}
\* what the cache may answer to PING
RedisReplies == {"PONG", "LOADING"}
Slots == 1..MaxInFlight

\* a field a response body does not carry
Absent == "absent"

ErrRefused == "connect ECONNREFUSED"
ErrPoolTimeout == "timeout exceeded when trying to connect"
ErrTerminated == "Connection terminated unexpectedly"
ErrJsonSyntax == "invalid input syntax for type json"
ErrBodyParse == "Unexpected token in JSON"
\* the messages of the errors of the dependencies and of the body parser
UnderlyingErrors == {ErrRefused, ErrPoolTimeout, ErrTerminated, ErrJsonSyntax, ErrBodyParse}

VARIABLES
  NODE_ENV,      \* process.env.NODE_ENV, fixed when the process starts
  dbUp,          \* the relational store answers
  redisUp,       \* the cache answers
  borrowed,      \* clients of the pool checked out and not released
  process_logs,  \* the rows of table process_logs: [id, data]
  nextId,        \* the SERIAL sequence of process_logs.id
  metricsData,   \* metrics.js: requestCount, errorCount, responseTime
  req,           \* the requests in flight, by slot
  accepted,      \* requests received so far
  finished,      \* history: responses finished so far, by kind
  signals,       \* SIGTERM signals delivered so far
  server,        \* the HTTP server: listening, close() calls, 'close' listeners
  poolEnd,       \* the pool's shutdown: ending, ended, end() calls
  exitCode,      \* the code process.exit() was called with, NoExit before
  bg,            \* blue-green-deploy.sh and the docker host it runs on
  roll           \* rolling-deploy.sh and the auto scaling group it drives

vars == <<NODE_ENV, dbUp, redisUp, borrowed, process_logs, nextId, metricsData,
          req, accepted, finished, signals, server, poolEnd, exitCode, bg, roll>>

NoBody ==
  [error |-> Absent, message |-> Absent, status |-> Absent, timestamp |-> FALSE,
   id |-> 0, database |-> Absent, redis |-> Absent,
   requestCount |-> -1, errorCount |-> -1,
   errorRate |-> <<>>, avgResponseTime |-> <<>>]

\* a free slot
Idle ==
  [pc |-> "idle", method |-> "", path |-> "", body |-> "none", data |-> Undefined,
   route |-> "", metered |-> FALSE, dbStatus |-> "", redisStatus |-> "",
   client |-> FALSE, connects |-> 0, pings |-> 0, inserted |-> 0,
   statusCode |-> 0, resBody |-> NoBody, sent |-> 0]

\* process.exit() has not been called
NoExit == -1
\* the server after app.listen(), the pool after new pg.Pool()
Listening == [listening |-> TRUE, closeCalls |-> 0, onClose |-> 0]
PoolOpen == [ending |-> FALSE, ended |-> FALSE, endCalls |-> 0]

\* the deployment scripts, not started
BgOff ==
  [pc |-> "off", running |-> {}, before |-> {}, traffic |-> "", traffic0 |-> "",
   ACTIVE_CONTAINER |-> "", INACTIVE_CONTAINER |-> "", elapsed |-> 0,
   passed |-> FALSE, switches |-> <<>>, exit |-> NoExit]
RollOff ==
  [pc |-> "off", desired |-> 0, minSize |-> 0, inService |-> 0, before |-> 0,
   DESIRED_CAPACITY |-> 0, i |-> 0, terminated |-> 0, inBatch |-> 0,
   exit |-> NoExit]

\* the server process, started; no deployment script runs
ServerStarted ==
  /\ dbUp = TRUE
  /\ redisUp = TRUE
  /\ borrowed = 0
  /\ process_logs = <<>>
  /\ nextId = 1
  /\ metricsData = [requestCount |-> 0, errorCount |-> 0, responseTime |-> <<>>]
  /\ req = [s \in Slots |-> Idle]
  /\ accepted = 0
  /\ finished = [all |-> 0, routed |-> 0, routedErrors |-> 0]
  /\ signals = 0
  /\ server = Listening
  /\ poolEnd = PoolOpen
  /\ exitCode = NoExit

Init ==
  /\ NODE_ENV \in Environments
  /\ ServerStarted
  /\ bg = BgOff
  /\ roll = RollOff

(***************************************************************************)
(* Routing (app.get / app.post / the final app.use).                       *)
(***************************************************************************)
\* a mutant of the router: the path alone selects the handler
RouteByPath(m, p) ==
  CASE p = "/health" -> "health"
    [] p = "/metrics" -> "metrics"
    [] p = "/status" -> "status"
    [] p = "/process" -> "process"
    [] OTHER -> "notFound"

Route(m, p) ==
  CASE m = "GET" /\ p = "/health" -> "health"
    [] m = "GET" /\ p = "/metrics" -> "metrics"
    [] m = "GET" /\ p = "/status" -> "status"
    [] m = "POST" /\ p = "/process" -> "process"
    [] OTHER -> "notFound"

\* res.status(code).json(body): the response is written, 'finish' follows
Respond(r, code, body) ==
  [r EXCEPT !.pc = "responded", !.statusCode = code, !.resBody = body,
            !.sent = @ + 1]

\* a mutant of the acceptance: no request is taken while another one waits
\* for the store or the cache
ArrivesWhenNoneWaiting(s) ==
  /\ accepted < MaxRequests
  /\ server.listening
  /\ req[s].pc = "idle"
  /\ \A t \in Slots : t < s => req[t].pc # "idle"
  /\ \A t \in Slots : req[t].pc \notin {"connect", "query", "ping"}

\* A request arrives on the free slot s.
Arrives(s) ==
  /\ accepted < MaxRequests
  /\ server.listening
  /\ req[s].pc = "idle"
  /\ \A t \in Slots : t < s => req[t].pc # "idle"

\* what a client sends: a JSON object only with POST, a POST /process never
\* without a body, the data field only to /process
Sendable(m, p, b, d) ==
  /\ m \in Methods /\ p \in Paths /\ b \in Bodies
  /\ b = "json" => m = "POST"
  /\ (m = "POST" /\ p = "/process") => b # "none"
  /\ b # "json" => d = Undefined
  /\ (b = "json" /\ p # "/process") => d = Undefined

\* the request as the middleware chain first sees it
Incoming(m, p, b, d) ==
  [Idle EXCEPT !.method = m, !.path = p, !.body = b, !.data = d]

\* metricsMiddleware: register the 'finish' listener, then next()
metricsMiddleware(r) == [r EXCEPT !.metered = TRUE]

\* express.json() accepted the body; metricsMiddleware ran; handler h is chosen
Dispatched(s, m, p, b, d, h) ==
  /\ Arrives(s)
  /\ Sendable(m, p, b, d)
  /\ b # "malformed"
  /\ Route(m, p) = h
  /\ accepted' = accepted + 1

StoreUnchanged == UNCHANGED <<dbUp, redisUp, borrowed, process_logs, nextId>>
EnvUnchanged == UNCHANGED <<NODE_ENV, dbUp, redisUp>>
\* the process runs, and the step is no part of its shutdown sequence
Serving ==
  /\ exitCode = NoExit
  /\ UNCHANGED <<signals, server, poolEnd, exitCode, bg, roll>>

(***************************************************************************)
(* The error handler, reached when express.json() rejects the body: the    *)
(* parser sits before metricsMiddleware, and an error skips every          *)
(* middleware that is no error handler, so no 'finish' listener is set.    *)
(***************************************************************************)
\* a mutant of the redaction: only production hides the message
ErrorMessageUnlessProduction(env, msg) ==
  IF env # "production" THEN msg ELSE "An error occurred"

ErrorMessage(env, msg) == IF env = "development" THEN msg ELSE "An error occurred"

ErrorHandler(s, m, p) ==
  /\ Arrives(s)
  /\ Sendable(m, p, "malformed", Undefined)
  /\ accepted' = accepted + 1
  /\ req' = [req EXCEPT ![s] =
       Respond([Incoming(m, p, "malformed", Undefined) EXCEPT !.route = "errorHandler"],
               500,
               [NoBody EXCEPT !.error = "Internal server error",
                              !.message = ErrorMessage(NODE_ENV, ErrBodyParse)])]
  /\ UNCHANGED <<NODE_ENV, metricsData, finished>>
  /\ StoreUnchanged
  /\ Serving

(***************************************************************************)
(* GET /health                                                             *)
(***************************************************************************)
\* a mutant of the liveness probe: it reports the store's state
HealthOfStore ==
  IF dbUp THEN [code |-> 200, body |-> [NoBody EXCEPT !.status = "ok", !.timestamp = TRUE]]
  ELSE [code |-> 503, body |-> [NoBody EXCEPT !.status = "unhealthy", !.timestamp = TRUE]]

HealthResponse ==
  [code |-> 200, body |-> [NoBody EXCEPT !.status = "ok", !.timestamp = TRUE]]

Health(s, m, p, b) ==
  /\ Dispatched(s, m, p, b, Undefined, "health")
  /\ LET h == HealthResponse IN
     req' = [req EXCEPT ![s] =
       Respond([metricsMiddleware(Incoming(m, p, b, Undefined))
                  EXCEPT !.route = "health"], h.code, h.body)]
  /\ UNCHANGED <<NODE_ENV, metricsData, finished>>
  /\ StoreUnchanged
  /\ Serving

(***************************************************************************)
(* GET /metrics: metricsEndpoint reads the counters as they are now.       *)
(***************************************************************************)
\* the decimal digits of a natural number
RECURSIVE Decimal(_)
Decimal(n) ==
  IF n < 10 THEN <<Digits[n + 1]>>
  ELSE Decimal(n \div 10) \o <<Digits[(n % 10) + 1]>>

\* a mutant of toFixed(2): the digits after the second are cut off
ToFixed2Truncating(num, den) ==
  LET n == (100 * num) \div den IN
  Decimal(n \div 100) \o <<".">>
    \o <<Digits[((n \div 10) % 10) + 1], Digits[(n % 10) + 1]>>

\* (num / den).toFixed(2): the nearest number of hundredths, the larger one
\* of two equally near, written with two fraction digits
ToFixed2(num, den) ==
  LET n == (200 * num + den) \div (2 * den) IN
  Decimal(n \div 100) \o <<".">>
    \o <<Digits[((n \div 10) % 10) + 1], Digits[(n % 10) + 1]>>

\* responseTime.reduce((a, b) => a + b, 0)
RECURSIVE Sum(_)
Sum(times) == IF times = <<>> THEN 0 ELSE Head(times) + Sum(Tail(times))

\* a mutant of errorRate: the division is not guarded, and 0 / 0 is NaN
ErrorRateUnguarded(md) ==
  IF md.requestCount = 0 THEN <<"N", "a", "N", "%">>
  ELSE ToFixed2(md.errorCount * 100, md.requestCount) \o <<"%">>

\* errorRate
ErrorRate(md) ==
  IF md.requestCount > 0
  THEN ToFixed2(md.errorCount * 100, md.requestCount) \o <<"%">>
  ELSE <<"0", "%">>

\* avgResponseTime
AvgResponseTime(md) ==
  (IF Len(md.responseTime) > 0
   THEN ToFixed2(Sum(md.responseTime), Len(md.responseTime))
   ELSE ToFixed2(0, 1)) \o <<"m", "s">>

\* a mutant of the endpoint: the snapshot counts the request that asks for it
metricsEndpointCountsItself(s, m, p, b) ==
  /\ Dispatched(s, m, p, b, Undefined, "metrics")
  /\ req' = [req EXCEPT ![s] =
       Respond([metricsMiddleware(Incoming(m, p, b, Undefined))
                  EXCEPT !.route = "metrics"],
               200,
               [NoBody EXCEPT !.requestCount = metricsData.requestCount + 1,
                              !.errorCount = metricsData.errorCount,
                              !.errorRate = ErrorRate(metricsData),
                              !.avgResponseTime = AvgResponseTime(metricsData)])]
  /\ UNCHANGED <<NODE_ENV, metricsData, finished>>
  /\ StoreUnchanged
  /\ Serving

metricsEndpoint(s, m, p, b) ==
  /\ Dispatched(s, m, p, b, Undefined, "metrics")
  /\ req' = [req EXCEPT ![s] =
       Respond([metricsMiddleware(Incoming(m, p, b, Undefined))
                  EXCEPT !.route = "metrics"],
               200,
               [NoBody EXCEPT !.requestCount = metricsData.requestCount,
                              !.errorCount = metricsData.errorCount,
                              !.errorRate = ErrorRate(metricsData),
                              !.avgResponseTime = AvgResponseTime(metricsData)])]
  /\ UNCHANGED <<NODE_ENV, metricsData, finished>>
  /\ StoreUnchanged
  /\ Serving

(***************************************************************************)
(* The 404 handler: the final app.use, for what no route matched.          *)
(***************************************************************************)
NotFound(s, m, p, b) ==
  /\ Dispatched(s, m, p, b, Undefined, "notFound")
  /\ req' = [req EXCEPT ![s] =
       Respond([metricsMiddleware(Incoming(m, p, b, Undefined))
                  EXCEPT !.route = "notFound"],
               404, [NoBody EXCEPT !.error = "Endpoint not found"])]
  /\ UNCHANGED <<NODE_ENV, metricsData, finished>>
  /\ StoreUnchanged
  /\ Serving

(***************************************************************************)
(* The store pool (pg.Pool, max clients, connectionTimeoutMillis).         *)
(***************************************************************************)
\* a mutant of the pool: it hands out clients beyond its maximum
CanConnectUnbounded == dbUp

\* pool.connect() resolves with a client
CanConnect == dbUp /\ borrowed < PoolMax
\* pool.connect() rejects: the store refuses, or no client came free in time
ConnectError == IF ~dbUp THEN ErrRefused ELSE ErrPoolTimeout

(***************************************************************************)
(* GET /status                                                             *)
(***************************************************************************)
\* a mutant of the aggregate: one connected dependency is enough
AggregateEither(db, redis) ==
  IF db = "connected" \/ redis = "connected" THEN "healthy" ELSE "degraded"

Aggregate(db, redis) ==
  IF db = "connected" /\ redis = "connected" THEN "healthy" ELSE "degraded"

\* the handler up to `await pool.connect()`
Status(s, m, p, b) ==
  /\ Dispatched(s, m, p, b, Undefined, "status")
  /\ req' = [req EXCEPT ![s] =
       [metricsMiddleware(Incoming(m, p, b, Undefined))
          EXCEPT !.route = "status", !.pc = "connect",
                 !.dbStatus = "disconnected", !.redisStatus = "disconnected",
                 !.connects = 1]]
  /\ UNCHANGED <<NODE_ENV, metricsData, finished>>
  /\ StoreUnchanged
  /\ Serving

\* pool.connect() resolved: `await client.query('SELECT NOW()')` is next
StatusConnected(s) ==
  /\ req[s].pc = "connect" /\ req[s].route = "status"
  /\ CanConnect
  /\ borrowed' = borrowed + 1
  /\ req' = [req EXCEPT ![s].pc = "query", ![s].client = TRUE]
  /\ UNCHANGED <<process_logs, nextId, metricsData, accepted, finished>>
  /\ EnvUnchanged
  /\ Serving

\* pool.connect() rejected: the catch sets 'error'; `await redis.ping()` is next
StatusConnectFailed(s) ==
  /\ req[s].pc = "connect" /\ req[s].route = "status"
  /\ ~CanConnect
  /\ req' = [req EXCEPT ![s].pc = "ping", ![s].dbStatus = "error", ![s].pings = 1]
  /\ UNCHANGED <<borrowed, process_logs, nextId, metricsData, accepted, finished>>
  /\ EnvUnchanged
  /\ Serving

\* the query resolved: release the client, 'connected'; the ping is next
StatusQueried(s) ==
  /\ req[s].pc = "query" /\ req[s].route = "status"
  /\ dbUp
  /\ borrowed' = borrowed - 1
  /\ req' = [req EXCEPT ![s].pc = "ping", ![s].client = FALSE,
                        ![s].dbStatus = "connected", ![s].pings = 1]
  /\ UNCHANGED <<process_logs, nextId, metricsData, accepted, finished>>
  /\ EnvUnchanged
  /\ Serving

\* the query rejected: the catch skips client.release(); the ping is next
StatusQueryFailed(s) ==
  /\ req[s].pc = "query" /\ req[s].route = "status"
  /\ ~dbUp
  /\ req' = [req EXCEPT ![s].pc = "ping", ![s].dbStatus = "error", ![s].pings = 1]
  /\ UNCHANGED <<borrowed, process_logs, nextId, metricsData, accepted, finished>>
  /\ EnvUnchanged
  /\ Serving

\* res.status(200).json({status, timestamp, database, redis, uptime})
StatusResponse(r, redisStatus) ==
  Respond([r EXCEPT !.redisStatus = redisStatus], 200,
          [NoBody EXCEPT !.status = Aggregate(r.dbStatus, redisStatus),
                         !.timestamp = TRUE,
                         !.database = r.dbStatus,
                         !.redis = redisStatus])

\* redis.ping() resolved with a reply
StatusPinged(s, reply) ==
  /\ req[s].pc = "ping" /\ req[s].route = "status"
  /\ redisUp
  /\ reply \in RedisReplies
  /\ req' = [req EXCEPT ![s] =
       StatusResponse(req[s], IF reply = "PONG" THEN "connected" ELSE req[s].redisStatus)]
  /\ UNCHANGED <<metricsData, accepted, finished>>
  /\ StoreUnchanged
  /\ UNCHANGED NODE_ENV
  /\ Serving

\* redis.ping() rejected
StatusPingFailed(s) ==
  /\ req[s].pc = "ping" /\ req[s].route = "status"
  /\ ~redisUp
  /\ req' = [req EXCEPT ![s] = StatusResponse(req[s], "error")]
  /\ UNCHANGED <<metricsData, accepted, finished>>
  /\ StoreUnchanged
  /\ UNCHANGED NODE_ENV
  /\ Serving

(***************************************************************************)
(* POST /process                                                           *)
(***************************************************************************)
\* a mutant of the presence test: only an explicit null is refused
MissingIfNull(data) == data = JNull

\* `if (!data)`
Missing(data) == ~Truthy(data)

\* the catch of the handler: 500 with error.message
ProcessFailure(msg) ==
  [code |-> 500,
   body |-> [NoBody EXCEPT !.error = "Processing failed", !.message = msg]]

\* the handler up to its 400, or up to `await pool.connect()`
Process(s, m, p, b, d) ==
  /\ Dispatched(s, m, p, b, d, "process")
  /\ LET r == [metricsMiddleware(Incoming(m, p, b, d))
                 EXCEPT !.route = "process"] IN
     req' = [req EXCEPT ![s] =
       IF Missing(d)
       THEN Respond(r, 400, [NoBody EXCEPT !.error = "Missing data field"])
       ELSE [r EXCEPT !.pc = "connect", !.connects = 1]]
  /\ UNCHANGED <<NODE_ENV, metricsData, finished>>
  /\ StoreUnchanged
  /\ Serving

\* pool.connect() resolved: the INSERT is next
ProcessConnected(s) ==
  /\ req[s].pc = "connect" /\ req[s].route = "process"
  /\ CanConnect
  /\ borrowed' = borrowed + 1
  /\ req' = [req EXCEPT ![s].pc = "query", ![s].client = TRUE]
  /\ UNCHANGED <<process_logs, nextId, metricsData, accepted, finished>>
  /\ EnvUnchanged
  /\ Serving

\* pool.connect() rejected: the catch answers 500
ProcessConnectFailed(s) ==
  /\ req[s].pc = "connect" /\ req[s].route = "process"
  /\ ~CanConnect
  /\ LET f == ProcessFailure(ConnectError) IN
     req' = [req EXCEPT ![s] = Respond(req[s], f.code, f.body)]
  /\ UNCHANGED <<borrowed, process_logs, nextId, metricsData, accepted, finished>>
  /\ EnvUnchanged
  /\ Serving

\* the parameter of INSERT INTO process_logs (data) VALUES ($1), as the store
\* reads it, of every value a client sends
StoredAs == [d \in DataValues \cup IngestValues |-> JsonbIn(Stringify(d))]
InsertValue(data) == StoredAs[data]

\* the INSERT returned its row: release the client, answer 200 with the id
ProcessInserted(s) ==
  /\ req[s].pc = "query" /\ req[s].route = "process"
  /\ dbUp
  /\ InsertValue(req[s].data).ok
  /\ process_logs' = Append(process_logs,
                            [id |-> nextId, data |-> InsertValue(req[s].data).val])
  /\ nextId' = nextId + 1
  /\ borrowed' = borrowed - 1
  /\ req' = [req EXCEPT ![s] =
       Respond([req[s] EXCEPT !.client = FALSE, !.inserted = nextId], 200,
               [NoBody EXCEPT !.message = "Data processed successfully",
                              !.id = nextId, !.timestamp = TRUE])]
  /\ UNCHANGED <<metricsData, accepted, finished>>
  /\ EnvUnchanged
  /\ Serving

\* the INSERT rejected: the catch answers 500 and skips client.release()
ProcessInsertFailed(s) ==
  /\ req[s].pc = "query" /\ req[s].route = "process"
  /\ ~dbUp \/ ~InsertValue(req[s].data).ok
  /\ LET f == ProcessFailure(IF ~dbUp THEN ErrTerminated ELSE ErrJsonSyntax) IN
     req' = [req EXCEPT ![s] = Respond(req[s], f.code, f.body)]
  /\ UNCHANGED <<borrowed, process_logs, nextId, metricsData, accepted, finished>>
  /\ EnvUnchanged
  /\ Serving

\* the store applied the INSERT and went away before its reply arrived: the
\* query rejects all the same, the catch answers 500 and skips
\* client.release(), and the row is in the table
ProcessInsertLost(s) ==
  /\ req[s].pc = "query" /\ req[s].route = "process"
  /\ ~dbUp /\ InsertValue(req[s].data).ok
  /\ process_logs' = Append(process_logs,
                            [id |-> nextId, data |-> InsertValue(req[s].data).val])
  /\ nextId' = nextId + 1
  /\ LET f == ProcessFailure(ErrTerminated) IN
     req' = [req EXCEPT ![s] = Respond(req[s], f.code, f.body)]
  /\ UNCHANGED <<borrowed, metricsData, accepted, finished>>
  /\ EnvUnchanged
  /\ Serving

(***************************************************************************)
(* The 'finish' event of a response: the listener metricsMiddleware set.   *)
(***************************************************************************)
\* a mutant of the listener: a 400 is not counted as an error
OnFinishAbove400(md, statusCode, duration) ==
  [requestCount |-> md.requestCount + 1,
   errorCount |-> md.errorCount + (IF statusCode > 400 THEN 1 ELSE 0),
   responseTime |-> Append(md.responseTime, duration)]

\* a mutant of the listener: the duration is recorded for errors only
OnFinishTimesErrors(md, statusCode, duration) ==
  [requestCount |-> md.requestCount + 1,
   errorCount |-> md.errorCount + (IF statusCode >= 400 THEN 1 ELSE 0),
   responseTime |-> IF statusCode >= 400 THEN Append(md.responseTime, duration)
                    ELSE md.responseTime]

OnFinish(md, statusCode, duration) ==
  [requestCount |-> md.requestCount + 1,
   errorCount |-> md.errorCount + (IF statusCode >= 400 THEN 1 ELSE 0),
   responseTime |-> Append(md.responseTime, duration)]

(***************************************************************************)
(* Graceful shutdown: process.on('SIGTERM') calls server.close(cb), whose   *)
(* callback calls pool.end(cb), whose callback calls process.exit(0).       *)
(***************************************************************************)
\* a mutant of server.close(): the listening handle stays open
ServerCloseStillListening(srv) ==
  [srv EXCEPT !.closeCalls = @ + 1, !.onClose = @ + 1]

\* server.close(cb): the listening handle is closed, cb waits for 'close'
\* (on a server that listens no more cb is registered all the same)
ServerClose(srv) ==
  [srv EXCEPT !.listening = FALSE, !.closeCalls = @ + 1, !.onClose = @ + 1]

\* pool.end(() => process.exit(0)) on the pool and exit code pe: a pool that
\* is ending already calls back at once with an error; otherwise the idle
\* clients are closed, and the callback waits until no client is borrowed
PoolEndCalled(pe) ==
  IF pe.pool.ending
    THEN [pool |-> [pe.pool EXCEPT !.endCalls = @ + 1], exit |-> 0]
  ELSE IF borrowed = 0
    THEN [pool |-> [ending |-> TRUE, ended |-> TRUE, endCalls |-> pe.pool.endCalls + 1],
          exit |-> 0]
  ELSE [pool |-> [ending |-> TRUE, ended |-> FALSE, endCalls |-> pe.pool.endCalls + 1],
        exit |-> pe.exit]

\* 'close' is emitted: its n listeners run in turn, until one has exited
RECURSIVE EmitClose(_, _)
EmitClose(n, pe) ==
  IF n = 0 \/ pe.exit # NoExit THEN pe ELSE EmitClose(n - 1, PoolEndCalled(pe))

\* server._emitCloseIfDrained(): with no listening handle and no connection
\* left 'close' is emitted; srv is the server, drained tells no request is
\* in flight
EmitCloseIfDrained(srv, drained) ==
  IF ~srv.listening /\ drained
  THEN LET pe == EmitClose(srv.onClose, [pool |-> poolEnd, exit |-> exitCode]) IN
       /\ server' = [srv EXCEPT !.onClose = 0]
       /\ poolEnd' = pe.pool
       /\ exitCode' = pe.exit
  ELSE /\ server' = srv
       /\ UNCHANGED <<poolEnd, exitCode>>

\* the SIGTERM handler
Sigterm ==
  /\ exitCode = NoExit
  /\ signals < MaxSignals
  /\ signals' = signals + 1
  /\ EmitCloseIfDrained(ServerClose(server), \A s \in Slots : req[s].pc = "idle")
  /\ UNCHANGED <<NODE_ENV, metricsData, req, accepted, finished, bg, roll>>
  /\ StoreUnchanged

\* the 'finish' event of the response of slot s; on a server that is closing
\* its connection may have been the last one
Finish(s, duration) ==
  /\ req[s].pc = "responded"
  /\ duration \in 0..MaxDuration
  /\ ~req[s].metered => duration = 0
  /\ metricsData' = IF req[s].metered
                    THEN OnFinish(metricsData, req[s].statusCode, duration)
                    ELSE metricsData
  /\ finished' =
       LET routed == req[s].route # "errorHandler" IN
       [all |-> finished.all + 1,
        routed |-> finished.routed + (IF routed THEN 1 ELSE 0),
        routedErrors |-> finished.routedErrors
                         + (IF routed /\ req[s].statusCode >= 400 THEN 1 ELSE 0)]
  /\ req' = [req EXCEPT ![s] = Idle]
  /\ exitCode = NoExit
  /\ EmitCloseIfDrained(server, \A t \in Slots \ {s} : req[t].pc = "idle")
  /\ UNCHANGED <<NODE_ENV, accepted, signals, bg, roll>>
  /\ StoreUnchanged

(***************************************************************************)
(* The dependencies go down and come back.                                 *)
(***************************************************************************)
StoreFlips ==
  /\ dbUp' = ~dbUp
  /\ UNCHANGED <<NODE_ENV, redisUp, borrowed, process_logs, nextId, metricsData,
                 req, accepted, finished>>
  /\ Serving

CacheFlips ==
  /\ redisUp' = ~redisUp
  /\ UNCHANGED <<NODE_ENV, dbUp, borrowed, process_logs, nextId, metricsData,
                 req, accepted, finished>>
  /\ Serving

\* the store's end of a borrowed client's connection goes away: pg emits
\* 'error' on that client, and a client that is checked out (held by a
\* request, or never released) has no 'error' listener, pool.on('error')
\* hearing idle clients only: the exception is uncaught and the process
\* exits with code 1
UncaughtExit == 1
ClientErrorUnhandled ==
  /\ borrowed > 0 /\ ~dbUp
  /\ exitCode = NoExit
  /\ exitCode' = UncaughtExit
  /\ UNCHANGED <<NODE_ENV, dbUp, redisUp, borrowed, process_logs, nextId,
                 metricsData, req, accepted, finished, signals, server,
                 poolEnd, bg, roll>>

\* the slot the next request arrives on, if any
FreeSlot == {s \in Slots : Arrives(s)}
\* the requests the router hands to handler h
Handled(h) == {mp \in Methods \X Paths : Route(mp[1], mp[2]) = h}

Next ==
  \/ \E s \in FreeSlot, m \in Methods, p \in Paths : ErrorHandler(s, m, p)
  \/ \E s \in FreeSlot, mp \in Handled("health"), b \in Bodies :
       Health(s, mp[1], mp[2], b)
  \/ \E s \in FreeSlot, mp \in Handled("metrics"), b \in Bodies :
       metricsEndpoint(s, mp[1], mp[2], b)
  \/ \E s \in FreeSlot, mp \in Handled("notFound"), b \in Bodies :
       NotFound(s, mp[1], mp[2], b)
  \/ \E s \in FreeSlot, mp \in Handled("status"), b \in Bodies :
       Status(s, mp[1], mp[2], b)
  \/ \E s \in Slots : StatusConnected(s)
  \/ \E s \in Slots : StatusConnectFailed(s)
  \/ \E s \in Slots : StatusQueried(s)
  \/ \E s \in Slots : StatusQueryFailed(s)
  \/ \E s \in Slots, reply \in RedisReplies : StatusPinged(s, reply)
  \/ \E s \in Slots : StatusPingFailed(s)
  \/ \E s \in FreeSlot, mp \in Handled("process"), b \in Bodies, d \in DataValues :
       Process(s, mp[1], mp[2], b, d)
  \/ \E s \in Slots : ProcessConnected(s)
  \/ \E s \in Slots : ProcessConnectFailed(s)
  \/ \E s \in Slots : ProcessInserted(s)
  \/ \E s \in Slots : ProcessInsertFailed(s)
  \/ \E s \in Slots : ProcessInsertLost(s)
  \/ \E s \in Slots, duration \in 0..MaxDuration : Finish(s, duration)
  \/ StoreFlips
  \/ CacheFlips
  \/ ClientErrorUnhandled

Spec == Init /\ [][Next]_vars

(***************************************************************************)
(* The ingest path alone, on every kind of data value, the store up.       *)
(***************************************************************************)
NextIngest ==
  \/ \E s \in FreeSlot, mp \in Handled("process"), b \in Bodies, d \in IngestValues :
       Process(s, mp[1], mp[2], b, d)
  \/ \E s \in Slots : ProcessConnected(s)
  \/ \E s \in Slots : ProcessConnectFailed(s)
  \/ \E s \in Slots : ProcessInserted(s)
  \/ \E s \in Slots : ProcessInsertFailed(s)
  \/ \E s \in Slots, duration \in 0..MaxDuration : Finish(s, duration)

SpecIngest == Init /\ [][NextIngest]_vars

(***************************************************************************)
(* The metrics aggregator alone, observed from any state that recorded     *)
(* responses can have left it in: one duration per response, no more       *)
(* errors than responses.  accepted and finished count from that state on. *)
(***************************************************************************)
MetricsStates ==
  UNION {[requestCount : {n}, errorCount : 0..n,
          responseTime : [1..n -> 0..MaxDuration]] : n \in 0..MaxCount}

InitSnapshot ==
  /\ NODE_ENV \in Environments
  /\ metricsData \in MetricsStates
  /\ dbUp = TRUE /\ redisUp = TRUE /\ borrowed = 0
  /\ process_logs = <<>> /\ nextId = 1
  /\ req = [s \in Slots |-> Idle]
  /\ accepted = 0
  /\ finished = [all |-> 0, routed |-> 0, routedErrors |-> 0]
  /\ signals = 0 /\ server = Listening /\ poolEnd = PoolOpen
  /\ exitCode = NoExit
  /\ bg = BgOff /\ roll = RollOff

NextSnapshot ==
  \/ \E s \in FreeSlot, mp \in Handled("metrics"), b \in Bodies :
       metricsEndpoint(s, mp[1], mp[2], b)
  \/ \E s \in Slots, duration \in 0..MaxDuration : Finish(s, duration)

SpecSnapshot == InitSnapshot /\ [][NextSnapshot]_vars

(***************************************************************************)
(* The server under termination signals: requests that use no dependency,  *)
(* ingests that succeed, are refused or fail, and SIGTERM at any moment.    *)
(***************************************************************************)
NextShutdown ==
  \/ \E s \in FreeSlot, m \in Methods, p \in Paths : ErrorHandler(s, m, p)
  \/ \E s \in FreeSlot, mp \in Handled("health"), b \in Bodies :
       Health(s, mp[1], mp[2], b)
  \/ \E s \in FreeSlot, mp \in Handled("process"), b \in Bodies, d \in DataValues :
       Process(s, mp[1], mp[2], b, d)
  \/ \E s \in Slots : ProcessConnected(s)
  \/ \E s \in Slots : ProcessConnectFailed(s)
  \/ \E s \in Slots : ProcessInserted(s)
  \/ \E s \in Slots : ProcessInsertFailed(s)
  \/ \E s \in Slots, duration \in 0..MaxDuration : Finish(s, duration)
  \/ Sigterm

SpecShutdown == Init /\ [][NextShutdown]_vars

\* the next callback of the request in slot s: the store resolves or rejects
\* what the handler awaits, then the response is sent and finishes
RequestStep(s) ==
  \/ ProcessConnected(s)
  \/ ProcessConnectFailed(s)
  \/ ProcessInserted(s)
  \/ ProcessInsertFailed(s)
  \/ \E duration \in 0..MaxDuration : Finish(s, duration)

\* the event loop runs every callback that is ready: pool.connect() settles
\* within connectionTimeoutMillis, the query settles, the response is sent
SpecShutdownFair ==
  SpecShutdown /\ \A s \in Slots : WF_vars(RequestStep(s))

(***************************************************************************)
(* blue-green-deploy.sh: a new container is started beside the running     *)
(* one, checked, and given the traffic.  The script runs under `set -e`    *)
(* with `trap rollback ERR`: a command that fails outside a condition runs *)
(* rollback, which exits 1.                                                *)
(***************************************************************************)
BLUE_CONTAINER == "credpal-app-blue"
GREEN_CONTAINER == "credpal-app-green"
Containers == {BLUE_CONTAINER, GREEN_CONTAINER}
HEALTH_CHECK_TIMEOUT == 300
HEALTH_CHECK_INTERVAL == 5

serverVars ==
  <<NODE_ENV, dbUp, redisUp, borrowed, process_logs, nextId, metricsData,
    req, accepted, finished, signals, server, poolEnd, exitCode>>

\* the docker host when the script starts: which of the two containers run,
\* and which of them the traffic goes to
InitBlueGreen ==
  /\ NODE_ENV = "production"
  /\ ServerStarted
  /\ roll = RollOff
  /\ \E running \in SUBSET Containers, traffic \in Containers \cup {""} :
       /\ IF running = {} THEN traffic = "" ELSE traffic \in running
       /\ bg = [BgOff EXCEPT !.pc = "select", !.running = running,
                             !.before = running, !.traffic = traffic,
                             !.traffic0 = traffic]

\* switch_traffic from to: the body is a placeholder that announces the
\* switch; the model records the switch it stands for
switch_traffic(b, from, to) ==
  [b EXCEPT !.traffic = to, !.switches = Append(@, <<from, to>>)]

\* rollback: traffic to blue, green stopped and removed, exit 1
rollback(b) ==
  [switch_traffic(b, GREEN_CONTAINER, BLUE_CONTAINER)
     EXCEPT !.running = @ \ {GREEN_CONTAINER}, !.pc = "rolledBack", !.exit = 1]

\* `if docker ps | grep -q $BLUE_CONTAINER`
BgSelect ==
  /\ bg.pc = "select"
  /\ bg' = IF BLUE_CONTAINER \in bg.running
           THEN [bg EXCEPT !.pc = "pull", !.ACTIVE_CONTAINER = BLUE_CONTAINER,
                           !.INACTIVE_CONTAINER = GREEN_CONTAINER]
           ELSE [bg EXCEPT !.pc = "pull", !.ACTIVE_CONTAINER = GREEN_CONTAINER,
                           !.INACTIVE_CONTAINER = BLUE_CONTAINER]
  /\ UNCHANGED <<serverVars, roll>>

\* docker pull: it succeeds, or fails and the ERR trap runs rollback
BgPull(ok) ==
  /\ bg.pc = "pull"
  /\ bg' = IF ok THEN [bg EXCEPT !.pc = "remove"] ELSE rollback(bg)
  /\ UNCHANGED <<serverVars, roll>>

\* docker stop $INACTIVE_CONTAINER || true; docker rm $INACTIVE_CONTAINER || true
BgRemove ==
  /\ bg.pc = "remove"
  /\ bg' = [bg EXCEPT !.pc = "run", !.running = @ \ {bg.INACTIVE_CONTAINER}]
  /\ UNCHANGED <<serverVars, roll>>

\* docker run -d --name $INACTIVE_CONTAINER: it succeeds, or fails and the
\* ERR trap runs rollback
BgRun(ok) ==
  /\ bg.pc = "run"
  /\ bg' = IF ok
           THEN [bg EXCEPT !.pc = "health", !.elapsed = 0,
                           !.running = @ \cup {bg.INACTIVE_CONTAINER}]
           ELSE rollback(bg)
  /\ UNCHANGED <<serverVars, roll>>

\* check_container_health, one turn of its loop: wget succeeds and the
\* function returns 0, or the script sleeps and counts
BgHealthTry(ok) ==
  /\ bg.pc = "health"
  /\ bg.elapsed < HEALTH_CHECK_TIMEOUT
  /\ bg' = IF ok THEN [bg EXCEPT !.pc = "switch", !.passed = TRUE]
           ELSE [bg EXCEPT !.elapsed = @ + HEALTH_CHECK_INTERVAL]
  /\ UNCHANGED <<serverVars, roll>>

\* check_container_health returns 1: `if ! check_container_health` runs rollback
BgHealthTimeout ==
  /\ bg.pc = "health"
  /\ ~(bg.elapsed < HEALTH_CHECK_TIMEOUT)
  /\ bg' = rollback(bg)
  /\ UNCHANGED <<serverVars, roll>>

\* switch_traffic $ACTIVE_CONTAINER $INACTIVE_CONTAINER; the old container
\* is kept running; the script ends
BgSwitch ==
  /\ bg.pc = "switch"
  /\ bg' = [switch_traffic(bg, bg.ACTIVE_CONTAINER, bg.INACTIVE_CONTAINER)
             EXCEPT !.pc = "done", !.exit = 0]
  /\ UNCHANGED <<serverVars, roll>>

NextBlueGreen ==
  \/ BgSelect
  \/ \E ok \in BOOLEAN : BgPull(ok)
  \/ BgRemove
  \/ \E ok \in BOOLEAN : BgRun(ok)
  \/ \E ok \in BOOLEAN : BgHealthTry(ok)
  \/ BgHealthTimeout
  \/ BgSwitch

SpecBlueGreen == InitBlueGreen /\ [][NextBlueGreen]_vars

(***************************************************************************)
(* rolling-deploy.sh: the auto scaling group gets the new launch template  *)
(* and its instances are terminated one per batch.  The script runs under  *)
(* `set -e`: an aws command that fails outside a condition ends it with    *)
(* that command's status.                                                  *)
(***************************************************************************)
\* the group when the script starts: its desired capacity in service, its
\* minimum size at most that
InitRolling ==
  /\ NODE_ENV = "production"
  /\ ServerStarted
  /\ bg = BgOff
  /\ \E desired \in 1..MaxCapacity, minSize \in 0..MaxCapacity :
       /\ minSize <= desired
       /\ roll = [RollOff EXCEPT !.pc = "fetch", !.desired = desired,
                                 !.minSize = minSize, !.inService = desired,
                                 !.before = desired]

\* the script ends with status code
RollExit(r, code) == [r EXCEPT !.pc = "exited", !.exit = code]

\* the head of `for i in $(seq 1 $DESIRED_CAPACITY)`: batch i, or the end
RollBatch(r, i) ==
  IF i <= r.DESIRED_CAPACITY THEN [r EXCEPT !.pc = "list", !.i = i, !.inBatch = 0]
  ELSE RollExit([r EXCEPT !.i = i], 0)

\* DESIRED_CAPACITY=$(... | jq '.DesiredCapacity')
RollFetch(ok) ==
  /\ roll.pc = "fetch"
  /\ roll' = IF ok THEN [roll EXCEPT !.pc = "update", !.DESIRED_CAPACITY = roll.desired]
             ELSE RollExit(roll, 255)
  /\ UNCHANGED <<serverVars, bg>>

\* aws autoscaling update-auto-scaling-group --launch-template ...
RollUpdate(ok) ==
  /\ roll.pc = "update"
  /\ roll' = IF ok THEN RollBatch(roll, 1) ELSE RollExit(roll, 255)
  /\ UNCHANGED <<serverVars, bg>>

\* INSTANCES=$(aws autoscaling describe-auto-scaling-groups ...): with no
\* instance the inner loop has nothing to do and the next batch begins
RollList(ok) ==
  /\ roll.pc = "list"
  /\ roll' = IF ~ok THEN RollExit(roll, 255)
             ELSE IF roll.inService = 0 THEN RollBatch(roll, roll.i + 1)
             ELSE [roll EXCEPT !.pc = "terminate"]
  /\ UNCHANGED <<serverVars, bg>>

\* aws autoscaling terminate-instance-in-auto-scaling-group
\* --should-decrement-desired-capacity on the first instance listed: the
\* group refuses when its desired capacity is at its minimum size; else the
\* instance leaves service and the desired capacity drops by one, so no
\* replacement is launched
RollTerminate(ok) ==
  /\ roll.pc = "terminate"
  /\ roll' = IF ok /\ roll.desired > roll.minSize
             THEN [roll EXCEPT !.pc = "check", !.desired = @ - 1,
                               !.inService = @ - 1, !.terminated = @ + 1,
                               !.inBatch = @ + 1]
             ELSE RollExit(roll, 255)
  /\ UNCHANGED <<serverVars, bg>>

\* after sleep 30: `aws ec2 describe-instance-status --instance-ids
\* $INSTANCE_ID ... | grep -q 'ok'` on the instance just terminated; then
\* `break`, or exit 1
RollCheck(ok) ==
  /\ roll.pc = "check"
  /\ roll' = IF ok THEN RollBatch(roll, roll.i + 1) ELSE RollExit(roll, 1)
  /\ UNCHANGED <<serverVars, bg>>

NextRolling ==
  \/ \E ok \in BOOLEAN : RollFetch(ok)
  \/ \E ok \in BOOLEAN : RollUpdate(ok)
  \/ \E ok \in BOOLEAN : RollList(ok)
  \/ \E ok \in BOOLEAN : RollTerminate(ok)
  \/ \E ok \in BOOLEAN : RollCheck(ok)

SpecRolling == InitRolling /\ [][NextRolling]_vars

(***************************************************************************)
(* The claims.                                                             *)
(***************************************************************************)
Responded(s) == req[s].pc = "responded"
\* the request in slot s passed express.json() and reached route dispatch
Routed(s) == req[s].body # "malformed"
IsRequest(s, m, p) == req[s].method = m /\ req[s].path = p

\* C1: whatever the interleaving, once N responses of requests dispatched to
\* a route or to the 404 handler have finished, requestCount is N and
\* errorCount is the number of those with a status code >= 400.
C1_CountsAreExact ==
  /\ metricsData.requestCount = finished.routed
  /\ metricsData.errorCount = finished.routedErrors

\* C1 witness: every request of the run was dispatched and its response has
\* finished, some but not all of them errors.
C1_Witness ==
  /\ finished.routed = MaxRequests
  /\ finished.routedErrors \in 1..(MaxRequests - 1)
  /\ metricsData.requestCount = MaxRequests

\* C2 as claimed: every response that has finished, whatever its outcome, was
\* counted once in requestCount.
C2_EveryResponseCounted == metricsData.requestCount = finished.all

\* C3: a GET /health that reaches its handler is answered 200 with status
\* "ok" and a timestamp, whatever the state of the store, the cache and the
\* pool, and has called neither pool.connect() nor redis.ping().
C3_HealthAlwaysOk ==
  \A s \in Slots :
    (Responded(s) /\ IsRequest(s, "GET", "/health") /\ Routed(s)) =>
      /\ req[s].statusCode = 200
      /\ req[s].resBody = [NoBody EXCEPT !.status = "ok", !.timestamp = TRUE]
      /\ req[s].connects = 0
      /\ req[s].pings = 0
      /\ ~req[s].client

\* C3 witness: /health has answered while the store and the cache are down
\* and every client of the pool is taken.
C3_Witness ==
  \E s \in Slots :
    /\ Responded(s) /\ req[s].route = "health" /\ req[s].statusCode = 200
    /\ ~dbUp /\ ~redisUp /\ borrowed = PoolMax

C5_StatusUnavailable ==
  \A s \in Slots :
    (Responded(s) /\ IsRequest(s, "GET", "/status") /\ Routed(s)
       /\ req[s].dbStatus = "error") =>
      /\ req[s].statusCode = 503
      /\ req[s].resBody.status = "unhealthy"
      /\ req[s].resBody.error # Absent

\* the step in which the request of slot s is received and handled up to
\* its response or its first await
Received(s) == req[s].pc = "idle" /\ req'[s].pc # "idle"

\* C6: POST /process with a JSON body without data field is answered 400
\* {"error":"Missing data field"} in the step that receives it, calls no
\* pool.connect(), and leaves the pool and the rows of process_logs as they were.
C6_MissingDataRefused ==
  [][\A s \in Slots :
       (Received(s) /\ req'[s].method = "POST" /\ req'[s].path = "/process"
          /\ req'[s].body = "json" /\ req'[s].data = Undefined) =>
         /\ req'[s].pc = "responded"
         /\ req'[s].statusCode = 400
         /\ req'[s].resBody = [NoBody EXCEPT !.error = "Missing data field"]
         /\ req'[s].connects = 0
         /\ borrowed' = borrowed
         /\ process_logs' = process_logs
         /\ nextId' = nextId]_vars

\* C6 witness: rows are stored and a body without data field has got its 400.
C6_Witness ==
  \E s \in Slots :
    /\ Responded(s) /\ req[s].route = "process" /\ req[s].body = "json"
    /\ req[s].data = Undefined /\ req[s].statusCode = 400
    /\ Len(process_logs) >= 1

\* C7 as claimed: whenever the body has a data field, whatever its value,
\* the handler does not answer 400 but goes on to the insert.
C7_EveryValueAccepted ==
  \A s \in Slots :
    (Responded(s) /\ IsRequest(s, "POST", "/process") /\ req[s].body = "json"
       /\ req[s].data # Undefined) =>
      /\ req[s].statusCode # 400
      /\ req[s].connects = 1

(***************************************************************************)
(* Deep equality of two JavaScript values: objects are equal when they     *)
(* hold the same keys with deep-equal values, in any order.                *)
(***************************************************************************)
Keys(o) == {o[i][1] : i \in 1..Len(o)}
\* the value of the last member of o with key k
Lookup(o, k) ==
  o[CHOOSE i \in 1..Len(o) : o[i][1] = k /\ \A j \in (i + 1)..Len(o) : o[j][1] # k][2]

RECURSIVE DeepEquals(_, _)
DeepEquals(x, y) ==
  IF x.t # y.t THEN FALSE
  ELSE CASE x.t = "arr" ->
              /\ Len(x.a) = Len(y.a)
              /\ \A i \in 1..Len(x.a) : DeepEquals(x.a[i], y.a[i])
         [] x.t = "obj" ->
              /\ Keys(x.o) = Keys(y.o)
              /\ \A k \in Keys(x.o) : DeepEquals(Lookup(x.o, k), Lookup(y.o, k))
         [] OTHER -> x = y

\* a value jsonb can hold: no string or key of it contains U+0000
RECURSIVE Storable(_)
Storable(v) ==
  CASE v.t = "str" -> \A i \in 1..Len(v.s) : v.s[i] # NUL
    [] v.t = "arr" -> \A i \in 1..Len(v.a) : Storable(v.a[i])
    [] v.t = "obj" -> \A i \in 1..Len(v.o) :
                        /\ \A j \in 1..Len(v.o[i][1]) : v.o[i][1][j] # NUL
                        /\ Storable(v.o[i][2])
    [] v.t = "undefined" -> FALSE
    [] OTHER -> TRUE

\* SELECT data FROM process_logs WHERE id = $1
ReadBack(id) ==
  LET i == CHOOSE i \in 1..Len(process_logs) : process_logs[i].id = id
  IN process_logs[i].data

\* the answer to a stored value: 200 with the id of a row that reads back
\* deep-equal to the data sent
AnsweredWithStoredRow(s) ==
  /\ req[s].statusCode = 200
  /\ req[s].resBody.id # 0
  /\ Cardinality({i \in 1..Len(process_logs) : process_logs[i].id = req[s].resBody.id}) = 1
  /\ DeepEquals(ReadBack(req[s].resBody.id), req[s].data)

\* C8 as claimed: POST /process with a data value the store accepts, unless
\* the store failed (500), is answered 200 with the id of the inserted row,
\* the row reads back equal to the data sent, and ids are distinct.
C8_StoredAndReadBack ==
  /\ \A s \in Slots :
       (Responded(s) /\ IsRequest(s, "POST", "/process") /\ req[s].body = "json"
          /\ Storable(req[s].data) /\ req[s].statusCode # 500) =>
         AnsweredWithStoredRow(s)
  /\ \A s, t \in Slots :
       (s # t /\ Responded(s) /\ Responded(t)
          /\ req[s].statusCode = 200 /\ req[t].statusCode = 200
          /\ req[s].route = "process" /\ req[t].route = "process") =>
         req[s].resBody.id # req[t].resBody.id

\* What holds of the ingest path: a truthy value jsonb can hold, unless the
\* store failed, is answered 200 with the id of its row, the row reads back
\* deep-equal to the data sent, and answers in flight carry distinct ids.
IngestRoundTrip ==
  /\ \A s \in Slots :
       (Responded(s) /\ IsRequest(s, "POST", "/process") /\ req[s].body = "json"
          /\ Storable(req[s].data) /\ Truthy(req[s].data)
          /\ req[s].statusCode # 500) =>
         AnsweredWithStoredRow(s)
  /\ \A i, j \in 1..Len(process_logs) :
       i # j => process_logs[i].id # process_logs[j].id

\* C9 as claimed: a failed insert is answered 500, and outside development
\* mode the body does not carry the message of the underlying error.
C9_SafeFailureMessage ==
  \A s \in Slots :
    (Responded(s) /\ req[s].route = "process" /\ req[s].connects = 1
       /\ req[s].inserted = 0) =>
      /\ req[s].statusCode = 500
      /\ NODE_ENV # "development" => req[s].resBody.message \notin UnderlyingErrors

KnownRoutes ==
  {<<"GET", "/health">>, <<"GET", "/status">>, <<"GET", "/metrics">>,
   <<"POST", "/process">>}

C11_FreshSnapshot ==
  \A s \in Slots :
    (Responded(s) /\ req[s].route = "metrics" /\ finished.all = 0) =>
      /\ req[s].statusCode = 200
      /\ req[s].resBody.requestCount = 0
      /\ req[s].resBody.errorRate = <<"0", "%">>
      /\ req[s].resBody.avgResponseTime = <<"0", ".", "0", "0", "m", "s">>

\* C11 witness: the first request of the process was a GET /metrics, answered
\* and not finished yet.
C11_Witness ==
  \E s \in Slots :
    /\ Responded(s) /\ req[s].route = "metrics" /\ finished.all = 0
    /\ metricsData.requestCount = 0

InFlight(s) == req[s].pc # "idle"
Exited == exitCode # NoExit

C13_SecondSignalHasNoEffect ==
  /\ server.closeCalls <= 1
  /\ poolEnd.endCalls <= 1
  /\ Exited => poolEnd.ended

\* C14: in every state of the metrics aggregator errorCount <= requestCount
\* and the response-time list is as long as requestCount; no step lowers
\* either counter.
C14_MetricsInvariant ==
  /\ [](/\ metricsData.errorCount <= metricsData.requestCount
         /\ Len(metricsData.responseTime) = metricsData.requestCount)
  /\ [][/\ metricsData'.requestCount >= metricsData.requestCount
         /\ metricsData'.errorCount >= metricsData.errorCount]_vars

\* C14 witness: several responses are recorded, errors and successes among
\* them, with a duration for each.
C14_Witness ==
  /\ metricsData.requestCount >= 2
  /\ metricsData.errorCount >= 1
  /\ metricsData.errorCount < metricsData.requestCount
  /\ Len(metricsData.responseTime) = metricsData.requestCount
  /\ \E i \in 1..Len(metricsData.responseTime) : metricsData.responseTime[i] > 0

\* C15 as claimed: the database and redis fields of a GET /status response
\* are each "connected" or "error", never another value.
C15_ConnectedOrError ==
  \A s \in Slots :
    (Responded(s) /\ req[s].route = "status") =>
      /\ req[s].resBody.database \in {"connected", "error"}
      /\ req[s].resBody.redis \in {"connected", "error"}

\* C16 as claimed: when a blue-green deployment fails, whichever of the two
\* containers was active, the script has removed the new container, left the
\* container that was running and serving before it running and serving,
\* and exited 1.
C16_RollbackKeepsActive ==
  (/\ bg.pc = "rolledBack"
   /\ bg.ACTIVE_CONTAINER \in bg.before
   /\ bg.traffic0 = bg.ACTIVE_CONTAINER) =>
    /\ bg.exit = 1
    /\ bg.INACTIVE_CONTAINER \notin bg.running
    /\ bg.ACTIVE_CONTAINER \in bg.running
    /\ bg.traffic = bg.ACTIVE_CONTAINER

\* C17 as claimed: traffic is switched to the new container only once its
\* health check has passed, never on a run whose health check did not pass,
\* and a deployment that succeeds has not stopped the container that was
\* serving before it.
C17_SwitchOnlyAfterHealth ==
  /\ \A i \in 1..Len(bg.switches) :
       bg.switches[i][2] = bg.INACTIVE_CONTAINER => bg.passed
  /\ bg.pc = "done" => bg.traffic0 \in bg.running

\* C18 as claimed: the rolling deployment terminates at most one instance
\* per batch, leaves the group's desired capacity as it found it, and never
\* lets the number of instances in service reach zero.
C18_RollingKeepsCapacity ==
  /\ roll.inBatch <= 1
  /\ roll.exit # NoExit => roll.desired = roll.before
  /\ roll.inService > 0

\* C19 as claimed: a request that has ended holds no pool client, so that
\* with no request in flight no client is borrowed.
C19_AllReleased ==
  /\ \A s \in Slots : Responded(s) => ~req[s].client
  /\ (\A s \in Slots : ~InFlight(s)) => borrowed = 0

\* the place of the process in RUNNING -> DRAINING -> STOPPED
Lifecycle ==
  IF Exited THEN "STOPPED" ELSE IF server.listening THEN "RUNNING" ELSE "DRAINING"

\* C20 as claimed: the lifecycle never steps backwards; pool.end() is called
\* only when the server listens no more and no request is in flight; the
\* process exits only after a termination signal, with code 0, and only
\* once the pool's close has completed.
C20_LinearShutdown ==
  /\ [][Lifecycle = "DRAINING" => Lifecycle' # "RUNNING"]_vars
  /\ [](poolEnd.endCalls > 0 =>
          (~server.listening /\ \A s \in Slots : ~InFlight(s)))
  /\ [](Exited => (signals >= 1 /\ exitCode = 0 /\ poolEnd.ended))

\* C21 as claimed: once a termination signal is received, the requests in
\* flight finishing, the process eventually exits with code 0, whatever
\* state earlier requests left the pool in.
C21_EventuallyStopped == (signals >= 1) ~> (exitCode = 0)

\* the requests in flight that hold a pool client
Holders == {s \in Slots : req[s].client}

\* request s, waiting for a client while the store is up and every client is
\* borrowed, stops waiting in this step (the acquisition timeout elapsed)
AcquisitionTimedOut(s) ==
  /\ req[s].pc = "connect" /\ req'[s].pc # "connect"
  /\ dbUp /\ borrowed = PoolMax

\* C22: never more than the pool's maximum of clients is borrowed, and the
\* requests holding a client each hold one of their own (no more holders than
\* borrowed clients); a request whose wait for a client times out while all
\* clients are borrowed answers 500 with the pool's timeout message
\* (POST /process) or records the store as "error" and goes on to the ping
\* (GET /status), and that step changes no other request, no borrowed client
\* and no stored row.
C22_PoolBounded ==
  /\ [](Cardinality(Holders) <= borrowed /\ borrowed <= PoolMax)
  /\ [][\A s \in Slots : AcquisitionTimedOut(s) =>
          /\ req[s].route = "process" =>
               /\ Responded(s)' /\ req'[s].statusCode = 500
               /\ req'[s].resBody.error = "Processing failed"
               /\ req'[s].resBody.message = ErrPoolTimeout
          /\ req[s].route = "status" =>
               /\ req'[s].pc = "ping" /\ req'[s].dbStatus = "error"
          /\ req[s].route \in {"process", "status"}
          /\ ~req'[s].client
          /\ \A t \in Slots \ {s} : req'[t] = req[t]
          /\ borrowed' = borrowed /\ process_logs' = process_logs
          /\ metricsData' = metricsData]_vars

\* a POST /process answered 500 for the pool's timeout while another request,
\* still in flight, holds the only client
C22_Witness ==
  \E s, t \in Slots :
    /\ s # t
    /\ Responded(s) /\ req[s].route = "process" /\ req[s].statusCode = 500
    /\ req[s].resBody.message = ErrPoolTimeout
    /\ req[t].pc = "query" /\ req[t].client /\ borrowed = PoolMax

\* C23 as claimed: what earlier requests did never changes the answer of a
\* later one; in particular a request that asks for a client while the store
\* is up and no other request is in flight gets one (it goes on to its
\* query), as it does when no earlier request failed.
C23_FailuresDoNotSpread ==
  [][\A s \in Slots :
       (/\ req[s].pc = "connect" /\ dbUp
        /\ \A t \in Slots \ {s} : ~InFlight(t))
       => req'[s].pc \in {"connect", "query"}]_vars

\* C24 as claimed: in GET /status a failed store round trip becomes database
\* "error" and the ping is still made, a failed ping becomes redis "error"
\* and the store's outcome is kept; every answer of the route is a 200 that
\* reports both outcomes after one connect and one ping; and the process
\* does not exit while a request of the route holds its store client.
C24_StatusChecksContained ==
  /\ [](\A s \in Slots :
         /\ (Responded(s) /\ req[s].route = "status") =>
              /\ req[s].statusCode = 200
              /\ req[s].connects = 1 /\ req[s].pings = 1
              /\ req[s].resBody.database = req[s].dbStatus
              /\ req[s].resBody.redis = req[s].redisStatus
              /\ req[s].dbStatus \in {"connected", "error"}
         /\ (req[s].route = "status" /\ req[s].client) => exitCode = NoExit)
  /\ [][\A s \in Slots : req[s].route = "status" =>
          /\ (\/ req[s].pc = "connect" /\ req'[s].pc \notin {"connect", "query"}
              \/ /\ req[s].pc = "query" /\ req'[s].pc # "query"
                 /\ req'[s].dbStatus # "connected")
             => req'[s].pc = "ping" /\ req'[s].dbStatus = "error"
          /\ (req[s].pc = "ping" /\ req'[s].pc # "ping")
             => /\ Responded(s)'
                /\ req'[s].dbStatus = req[s].dbStatus
                /\ ~redisUp => req'[s].redisStatus = "error"]_vars

\* C25: every response of the top-level error handler (here to a body the
\* JSON parser rejects) has status 500 and error "Internal server error";
\* its message is the parser's message when NODE_ENV is "development" and
\* "An error occurred" for every other value, an unset NODE_ENV included.
C25_RedactedUnlessDevelopment ==
  \A s \in Slots :
    (Responded(s) /\ req[s].route = "errorHandler") =>
      /\ req[s].body = "malformed"
      /\ req[s].statusCode = 500
      /\ req[s].resBody.error = "Internal server error"
      /\ NODE_ENV = "development" <=> req[s].resBody.message = ErrBodyParse
      /\ NODE_ENV # "development" <=> req[s].resBody.message = "An error occurred"

\* the error handler answered with NODE_ENV unset, the message redacted
C25_Witness ==
  \E s \in Slots :
    /\ Responded(s) /\ req[s].route = "errorHandler"
    /\ NODE_ENV = "unset"
    /\ req[s].resBody.message = "An error occurred"

\* the requests suspended on a round trip to the store or the cache
Waiting == {s \in Slots : req[s].pc \in {"connect", "query", "ping"}}
\* the process runs and listens, and a connection is left for one more request
CanAccept ==
  /\ exitCode = NoExit /\ server.listening
  /\ accepted < MaxRequests
  /\ \E s \in Slots : req[s].pc = "idle"
\* the step answers the request it receives in slot s and changes no other
AnsweredOnArrival(s) ==
  /\ Received(s) /\ Responded(s)' /\ req'[s].statusCode = 200
  /\ \A t \in Slots \ {s} : req'[t] = req[t]

\* C26: whenever requests are suspended on the store or the cache and the
\* running server can take one more request, a GET /health and a GET /metrics
\* can each arrive and be answered 200 in the very step that receives them,
\* with every suspended request left where it is.
C26_WaitingBlocksOnlyItself ==
  (Waiting # {} /\ CanAccept) =>
    /\ ENABLED (\E s \in Slots :
                  Health(s, "GET", "/health", "none") /\ AnsweredOnArrival(s))
    /\ ENABLED (\E s \in Slots :
                  metricsEndpoint(s, "GET", "/metrics", "none")
                  /\ AnsweredOnArrival(s))

\* a GET /health that arrived second is answered while the request that
\* arrived first still waits for its query, no response finished yet
C26_Witness ==
  /\ req[1].pc = "query" /\ accepted = 2 /\ finished.all = 0
  /\ Responded(2) /\ req[2].route = "health" /\ req[2].statusCode = 200

\* the number a digit sequence writes
DigitValue(c) == CHOOSE d \in 0..9 : Digits[d + 1] = c
RECURSIVE Natural(_)
Natural(ds) ==
  IF ds = <<>> THEN 0
  ELSE 10 * Natural(SubSeq(ds, 1, Len(ds) - 1)) + DigitValue(ds[Len(ds)])
\* text is a number with two fraction digits followed by unit
IsFixed2(text, unit) ==
  /\ Len(text) >= Len(unit) + 4
  /\ SubSeq(text, Len(text) - Len(unit) + 1, Len(text)) = unit
  /\ text[Len(text) - Len(unit) - 2] = "."
  /\ \A i \in (1..(Len(text) - Len(unit))) \ {Len(text) - Len(unit) - 2} :
       \E d \in 0..9 : Digits[d + 1] = text[i]
\* the number of hundredths such a text reads as
Hundredths(text, unit) ==
  LET n == Len(text) - Len(unit) IN
  100 * Natural(SubSeq(text, 1, n - 3)) + Natural(SubSeq(text, n - 1, n))
Abs(x) == IF x < 0 THEN -x ELSE x
\* the step in which slot s receives a GET /metrics and answers it
SnapshotTaken(s) == Received(s) /\ req'[s].route = "metrics"

\* C27 as claimed: the error rate of a snapshot taken with requestCount > 0
\* is exactly errorCount * 100 / requestCount and its average response time
\* is exactly the sum of the durations divided by their number.
C27_ExactRatio ==
  [][\A s \in Slots : (SnapshotTaken(s) /\ metricsData.requestCount > 0) =>
       LET md == metricsData
           body == req'[s].resBody IN
       /\ IsFixed2(body.errorRate, <<"%">>)
       /\ Hundredths(body.errorRate, <<"%">>) * md.requestCount
            = 10000 * md.errorCount
       /\ IsFixed2(body.avgResponseTime, <<"m", "s">>)
       /\ Hundredths(body.avgResponseTime, <<"m", "s">>) * Len(md.responseTime)
            = 100 * Sum(md.responseTime)]_vars

\* C27, amended: the error rate of a snapshot taken with requestCount > 0 is
\* errorCount * 100 / requestCount rounded to two decimal places (the text
\* reads as a number within half a hundredth of the ratio, between 0 and
\* 100), its average response time is the mean of the recorded durations
\* rounded to two decimal places, and taking the snapshot changes none of
\* requestCount, errorCount or the duration list.
C27_RatioToTwoDecimals ==
  [][\A s \in Slots : (SnapshotTaken(s) /\ metricsData.requestCount > 0) =>
       LET md == metricsData
           body == req'[s].resBody
           rate == Hundredths(body.errorRate, <<"%">>)
           avg == Hundredths(body.avgResponseTime, <<"m", "s">>) IN
       /\ IsFixed2(body.errorRate, <<"%">>)
       /\ 2 * Abs(rate * md.requestCount - 10000 * md.errorCount)
            <= md.requestCount
       /\ rate \in 0..10000
       /\ IsFixed2(body.avgResponseTime, <<"m", "s">>)
       /\ 2 * Abs(avg * Len(md.responseTime) - 100 * Sum(md.responseTime))
            <= Len(md.responseTime)
       /\ body.requestCount = md.requestCount
       /\ body.errorCount = md.errorCount
       /\ metricsData' = metricsData]_vars

\* a snapshot taken after one error in three responses reads "33.33%", and
\* the counters are what they were
C27_Witness ==
  \E s \in Slots :
    /\ Responded(s) /\ req[s].route = "metrics"
    /\ accepted = 1 /\ finished.all = 0
    /\ metricsData.requestCount = 3 /\ metricsData.errorCount = 1
    /\ req[s].resBody.errorRate = <<"3", "3", ".", "3", "3", "%">>
    /\ req[s].resBody.requestCount = 3 /\ req[s].resBody.errorCount = 1

\* the step sends the 200 of a POST /process from slot s
IngestAnswered(s) ==
  /\ req[s].route = "process" /\ ~Responded(s)
  /\ Responded(s)' /\ req'[s].statusCode = 200

\* C28 as claimed: a step changes the stored records exactly when it answers
\* a POST /process with 200, and then it appends one record, the one whose
\* id the response carries (so the records are as many as the 200 answers);
\* every other step, the 400, 404 and 500 answers and all GET requests among
\* them, leaves the records as they are.
C28_AppendOnlyOn200 ==
  [][/\ (process_logs' # process_logs) <=> (\E s \in Slots : IngestAnswered(s))
     /\ \A s \in Slots : IngestAnswered(s) =>
          /\ Len(process_logs') = Len(process_logs) + 1
          /\ SubSeq(process_logs', 1, Len(process_logs)) = process_logs
          /\ process_logs'[Len(process_logs')].id = req'[s].resBody.id
          /\ \A t \in Slots \ {s} : ~IngestAnswered(t)]_vars

\* the 'finish' of the GET /metrics response of slot s
SnapshotFinished(s) ==
  Responded(s) /\ req[s].route = "metrics" /\ ~Responded(s)'

\* C29: the requestCount of a GET /metrics response is the number of routed
\* responses that had finished when its handler ran, 0 for the first request
\* of a process, and the handler records nothing; the request itself is
\* recorded at the 'finish' of its response, which adds exactly 1, so that a
\* GET /metrics taken after a GET /metrics has finished, nothing else
\* finishing in between, reports 1 more than that one did.
C29_SnapshotBeforeOwnRecord ==
  [][\A s \in Slots :
       /\ SnapshotTaken(s) =>
            /\ req'[s].resBody.requestCount = metricsData.requestCount
            /\ req'[s].resBody.requestCount = finished.routed
            /\ accepted = 0 => req'[s].resBody.requestCount = 0
            /\ metricsData' = metricsData /\ finished' = finished
       /\ SnapshotFinished(s) =>
            /\ metricsData'.requestCount = metricsData.requestCount + 1
            /\ finished'.routed = finished.routed + 1
            /\ req[s].resBody.requestCount <= metricsData.requestCount
            /\ req[s].resBody.requestCount = metricsData.requestCount
                 => metricsData'.requestCount = req[s].resBody.requestCount + 1]_vars

\* the second request of a process, a GET /metrics received after the first
\* response has finished, reports 1 and is not yet recorded itself
C29_Witness ==
  \E s \in Slots :
    /\ Responded(s) /\ req[s].route = "metrics"
    /\ accepted = 2 /\ finished.all = 1 /\ finished.routed = 1
    /\ req[s].resBody.requestCount = 1
    /\ metricsData.requestCount = 1
    /\ \A t \in Slots \ {s} : ~InFlight(t)

\* the request of slot s was received and its response is not sent yet
Unanswered(s) == InFlight(s) /\ ~Responded(s)
\* what the request of slot s awaits settles: its next callback runs
Settles(s) ==
  \/ StatusConnected(s) \/ StatusConnectFailed(s)
  \/ StatusQueried(s) \/ StatusQueryFailed(s)
  \/ \E reply \in RedisReplies : StatusPinged(s, reply)
  \/ StatusPingFailed(s)
  \/ ProcessConnected(s) \/ ProcessConnectFailed(s)
  \/ ProcessInserted(s) \/ ProcessInsertFailed(s)

\* C30 as claimed: a request that has been answered was sent one response,
\* with status 200, 400, 404 or 500 (400, 200 or 500 for POST /process); a
\* request not answered yet has been sent none, and is not left without one:
\* the process is still running and the callback that leads to its response
\* can run.
C30_ExactlyOneResponse ==
  \A s \in Slots :
    /\ Responded(s) =>
         /\ req[s].sent = 1
         /\ req[s].statusCode \in {200, 400, 404, 500}
         /\ req[s].route = "process" => req[s].statusCode \in {400, 200, 500}
    /\ Unanswered(s) =>
         /\ req[s].sent = 0
         /\ exitCode = NoExit
         /\ ENABLED Settles(s)

====
